---- MODULE Spec2Model ----
(***************************************************************************)
(* Tournament lifecycle and elimination ledger of the poker club tracker:  *)
(* TournamentManager of core.py (the registry tournaments.json, the        *)
(* per-tournament ledger tournament_<name>.xlsx, the audit history) and    *)
(* the remaining-players computation of app.py.  Spec is one session: one  *)
(* TournamentManager whose self.tournaments is what tournaments.json       *)
(* holds.  A write of a ledger file may fail (ioFail).  SpecLedger adds     *)
(* create_tournament_excel called on its own, SpecForm is the admin        *)
(* working through the two forms of app.py, SpecTwo is two sessions, each  *)
(* with its own TournamentManager.                                         *)
(*                                                                         *)
(* A DataFrame is a sequence of rows; an empty cell (pandas NaN) of a text *)
(* column is NaN, of the numeric 'Bounty Points' column NoPoints.  Player  *)
(* names are ordinary non-empty strings, which survive the to_excel /      *)
(* read_excel round trip unchanged.  stack_size, comment and earnings are  *)
(* stored and never read by the operations below; they are left out of the *)
(* record.                                                                 *)
(***************************************************************************)
EXTENDS Integers, Sequences, FiniteSets, TLC

VARIABLES
    disk,      \* tournaments.json: tournament name -> tournament_data
    mem,       \* self.tournaments of every TournamentManager instance
    xlsx,      \* the files tournament_<name>.xlsx: name -> rows of the sheet
    now,       \* datetime.now(), one tick per reading
    last,      \* the last call: what was called, with what, and how it ended
    okElims,   \* per name: successful update_tournament_elimination calls
               \* on the ledger file as it exists now
    passed     \* per name: the arguments of the create_tournament call that
               \* stored the record

vars == <<disk, mem, xlsx, now, last, okElims, passed>>

(***************************************************************************)
(* Bounds and input sets                                                   *)
(***************************************************************************)
MaxClock == 3

\* st.number_input("Nombre de joueurs", min_value=2, ...)
MinPlayers == 2

Names == {"Friday", "Saturday"}
\* the club members of data.csv
Roster == <<"A", "B", "C">>
Players == {Roster[i] : i \in 1..Len(Roster)}
Times == {"20:00"}
Managers == {1, 2}
Session == 1

NaN == "NaN"
NoPoints == -1

Prefix(n) == SubSeq(Roster, 1, n)

CreateInput(num_players, participants, bounties) ==
    [num_players |-> num_players, participants |-> participants,
     bounties |-> bounties]

\* What the creation form lets through: as many distinct participants as
\* num_players, bounties ticked among them.
ValidInputs(name) ==
    IF name = "Friday"
    THEN {CreateInput(n, Prefix(n), <<"B">>) : n \in MinPlayers..Len(Roster)}
    ELSE {CreateInput(2, <<"B", "A">>, << >>)}

\* What create_tournament itself is also callable with.
InvalidInputs(name) ==
    IF name = "Friday"
    THEN {CreateInput(2, <<"A", "A", "B">>, <<"C">>)}
    ELSE {}

CreateInputs(name) == ValidInputs(name) \cup InvalidInputs(name)

\* The eliminations tried: every player by "A", and "A" by "B".
Eliminator(player) == IF player = "A" THEN "B" ELSE "A"

(***************************************************************************)
(* Helpers                                                                 *)
(***************************************************************************)
In(x, s) == \E i \in 1..Len(s) : s[i] = x
Put(f, k, v) == [x \in DOMAIN f \cup {k} |-> IF x = k THEN v ELSE f[x]]
Min(S) == CHOOSE x \in S : \A y \in S : x <= y
Empty == [x \in {} |-> 0]

RECURSIVE Without(_, _)
Without(s, drop) ==
    IF s = << >> THEN << >>
    ELSE IF Head(s) \in drop THEN Without(Tail(s), drop)
         ELSE <<Head(s)>> \o Without(Tail(s), drop)

(***************************************************************************)
(* core.py: TournamentManager                                              *)
(***************************************************************************)
\* load_tournaments: the registry as the file holds it
load_tournaments == disk

\* get_tournament of manager m: self.tournaments.get(name); None is << >>
get_tournament(m, name) ==
    IF name \in DOMAIN mem[m] THEN <<mem[m][name]>> ELSE << >>

\* create_tournament_excel numbering the rows upwards: range(1, num_players + 1)
create_tournament_excel_ascending(num_players) ==
    [i \in 1..num_players |->
        [Rank |-> i,
         Player |-> NaN,
         EliminationTime |-> NaN,
         EliminatedBy |-> NaN,
         BountyClaimedFrom |-> NaN,
         BountyPoints |-> NoPoints]]

\* create_tournament_excel: Rank = range(num_players, 0, -1), the rest empty
create_tournament_excel(num_players) ==
    [i \in 1..num_players |->
        [Rank |-> num_players - i + 1,
         Player |-> NaN,
         EliminationTime |-> NaN,
         EliminatedBy |-> NaN,
         BountyClaimedFrom |-> NaN,
         BountyPoints |-> NoPoints]]

\* the dict of create_tournament with 'bounties': participants
tournament_data_bounties_slip(name, num_players, participants, bounties) ==
    [name |-> name,
     num_players |-> num_players,
     participants |-> participants,
     bounties |-> participants,
     date_created |-> now,
     history |-> << >>]

\* the dict create_tournament builds
tournament_data(name, num_players, participants, bounties) ==
    [name |-> name,
     num_players |-> num_players,
     participants |-> participants,
     bounties |-> bounties,
     date_created |-> now,
     history |-> << >>]

\* the entry update_tournament_history appends
history_entry(action, details) ==
    [timestamp |-> now, action |-> action, details |-> details]

\* the history assigned rather than appended to: ['history'] = [entry]
history_assign(reg, name, action, details) ==
    [reg EXCEPT ![name].history = <<history_entry(action, details)>>]

\* self.tournaments[name]['history'].append(entry)
history_append(reg, name, action, details) ==
    [reg EXCEPT ![name].history = Append(@, history_entry(action, details))]

\* A call's effect on the stores, whether it read the clock, and how it ended.
Result(m, d, x, ticks, outcome) ==
    [mem |-> m, disk |-> d, xlsx |-> x, ticks |-> ticks, outcome |-> outcome]

Unchanged(st, outcome) == Result(st.mem, st.disk, st.xlsx, 0, outcome)

\* create_tournament without its duplicate check
already_exists_unchecked(reg, name) == FALSE

\* if name in self.tournaments
already_exists(reg, name) == name \in DOMAIN reg

\* create_tournament of manager m on the stores st
do_create_tournament(st, m, name, num_players, participants, bounties, ioFail) ==
    IF already_exists(st.mem[m], name)
    THEN Unchanged(st, "DuplicateName")
    ELSE LET reg == Put(st.mem[m], name,
                        tournament_data(name, num_players, participants, bounties))
             m2 == [st.mem EXCEPT ![m] = reg]
         IN  \* save_tournaments rewrites the whole file from self.tournaments
             IF ioFail
             THEN Result(m2, reg, st.xlsx, 1, "IOError")
             ELSE Result(m2, reg,
                         Put(st.xlsx, name, create_tournament_excel(num_players)),
                         1, "ok")

\* create_tournament_excel called on its own: to_excel writes the file,
\* whether or not one is there
do_create_tournament_excel(st, name, num_players) ==
    Result(st.mem, st.disk,
           Put(st.xlsx, name, create_tournament_excel(num_players)), 0, "ok")

\* update_tournament_history of manager m on the stores st
do_update_tournament_history(st, m, name, action, details) ==
    IF name \notin DOMAIN st.mem[m]
    THEN Unchanged(st, "NotFound")
    ELSE LET reg == history_append(st.mem[m], name, action, details)
         IN  Result([st.mem EXCEPT ![m] = reg], reg, st.xlsx, 1, "ok")

\* the rows but the last whose Player is empty
empty_row_skipping_last(df) == {i \in 1..(Len(df) - 1) : df[i].Player = NaN}

\* the rows whose 'Bounty Claimed From' is empty: the wrong column
empty_row_wrong_column(df) == {i \in 1..Len(df) : df[i].BountyClaimedFrom = NaN}

\* the rows whose Player is empty: df['Player'].isna()
empty_row(df) == {i \in 1..Len(df) : df[i].Player = NaN}

\* the last empty row instead of the first
last_empty(df) == CHOOSE x \in empty_row(df) : \A y \in empty_row(df) : x >= y

\* empty_row.idxmax(): the first of them
first_empty(df) == Min(empty_row(df))

\* 1 if bounties else 0: any bounty in the tournament, not this player's
bounty_points_if_any(player, bounties) == IF bounties # << >> THEN 1 ELSE 0

\* 1 if player in bounties else 0
bounty_points_of(player, bounties) == IF In(player, bounties) THEN 1 ELSE 0

\* the row written with the points in the 'Rank' column
filled_row_rank_slip(row, player, elimination_time, eliminated_by, bounty_points) ==
    [row EXCEPT !.Player = player,
                !.EliminationTime = elimination_time,
                !.EliminatedBy = eliminated_by,
                !.Rank = bounty_points]

\* the row an elimination writes
filled_row(row, player, elimination_time, eliminated_by, bounty_points) ==
    [row EXCEPT !.Player = player,
                !.EliminationTime = elimination_time,
                !.EliminatedBy = eliminated_by,
                !.BountyPoints = bounty_points]

bounty_details(eliminated_by, player) ==
    <<eliminated_by, "claimed bounty point for eliminating", player>>

\* update_tournament_elimination of manager m on the stores st
do_update_tournament_elimination(st, m, name, player, elimination_time, eliminated_by, ioFail) ==
    IF name \notin DOMAIN st.disk
    THEN Unchanged(st, "NotFound")
    ELSE IF name \notin DOMAIN st.xlsx
    THEN Unchanged(st, "LedgerMissing")
    ELSE LET bounties == st.disk[name].bounties
             df == st.xlsx[name]
         IN  IF empty_row(df) = {}
             THEN Unchanged(st, "LedgerFull")
             ELSE LET idx == first_empty(df)
                      bounty_points == bounty_points_of(player, bounties)
                      df2 == [df EXCEPT ![idx] =
                                 filled_row(@, player, elimination_time,
                                            eliminated_by, bounty_points)]
                      h == IF bounty_points > 0
                           THEN do_update_tournament_history(
                                    st, m, name, "Bounty Claimed",
                                    bounty_details(eliminated_by, player))
                           ELSE Unchanged(st, "ok")
                  IN  IF h.outcome # "ok"
                      THEN h
                      ELSE IF ioFail
                      THEN Result(h.mem, h.disk, h.xlsx, h.ticks, "IOError")
                      ELSE Result(h.mem, h.disk, Put(h.xlsx, name, df2),
                                  h.ticks, "ok")

(***************************************************************************)
(* app.py                                                                  *)
(***************************************************************************)
\* set(df['Player'].dropna().values); an unreadable file gives the empty set
eliminated_players(x, name) ==
    IF name \in DOMAIN x
    THEN {x[name][i].Player : i \in 1..Len(x[name])} \ {NaN}
    ELSE {}

\* [p for p in tournament_data['participants'] if p not in eliminated_players]
remaining_players(d, x, name) ==
    Without(d[name].participants, eliminated_players(x, name))

\* What a view makes of the ledger read: whether it shows st.error, and the
\* remaining players it computes (<<list>>), if it computes any (<< >>).
View(error, remaining) == [error |-> error, remaining |-> remaining]

\* admin_view: an unreadable file is reported and replaced by an empty
\* DataFrame, whose missing 'Player' column gives no eliminated players
admin_view_remaining(d, x, name) ==
    View(name \notin DOMAIN x, <<remaining_players(d, x, name)>>)

\* user_view: the read and the computation share one try; an unreadable file
\* leaves only the message
user_view_remaining(d, x, name) ==
    IF name \in DOMAIN x
    THEN View(FALSE, <<remaining_players(d, x, name)>>)
    ELSE View(TRUE, << >>)

elimination_details(player, killer, time) ==
    <<player, "eliminated by", killer, "at", time>>

\* tournament_manager = TournamentManager(): self.tournaments = load_tournaments()
constructed(st, m) ==
    [mem |-> [st.mem EXCEPT ![m] = st.disk], disk |-> st.disk, xlsx |-> st.xlsx]

\* the creation form's checks before it calls create_tournament
form_valid(num_players, participants) ==
    /\ Len(participants) = num_players
    /\ \A i, j \in 1..Len(participants) : i # j => participants[i] # participants[j]

\* submit of the creation form: a new TournamentManager, then create_tournament
do_form_create(st, m, name, num_players, participants, bounties, ioFail) ==
    IF ~form_valid(num_players, participants)
    THEN Unchanged(st, "FormError")
    ELSE do_create_tournament(constructed(st, m), m, name, num_players,
                              participants, bounties, ioFail)

\* the elimination form's submit without its update_tournament_history call
do_form_elimination_unlogged(st, m, name, player, elimination_time, killer, ioFail) ==
    do_update_tournament_elimination(constructed(st, m), m, name, player,
                                     elimination_time, killer, ioFail)

\* submit of the elimination form with the manager of this script run:
\* update_tournament_elimination, then update_tournament_history "Elimination"
do_form_elimination(st, m, name, player, elimination_time, killer, ioFail) ==
    LET e == do_update_tournament_elimination(constructed(st, m), m, name, player,
                                              elimination_time, killer, ioFail)
    IN  IF e.outcome # "ok" THEN e
        ELSE LET h == do_update_tournament_history(
                          [mem |-> e.mem, disk |-> e.disk, xlsx |-> e.xlsx],
                          m, name, "Elimination",
                          elimination_details(player, killer, elimination_time))
             IN  Result(h.mem, h.disk, h.xlsx, e.ticks + h.ticks, h.outcome)

(***************************************************************************)
(* The state machine                                                       *)
(***************************************************************************)
Stores == [mem |-> mem, disk |-> disk, xlsx |-> xlsx]

Call(op, m, name, player, outcome) ==
    [op |-> op, mgr |-> m, name |-> name, player |-> player, outcome |-> outcome]

\* The stores after a call; the clock is capped at MaxClock readings.
Commit(r) ==
    /\ now + r.ticks <= MaxClock
    /\ mem' = r.mem
    /\ disk' = r.disk
    /\ xlsx' = r.xlsx
    /\ now' = now + r.ticks

Init ==
    /\ disk = Empty
    /\ mem = [m \in Managers |-> Empty]
    /\ xlsx = Empty
    /\ now = 0
    /\ last = Call("init", Session, "-", "-", "ok")
    /\ okElims = [n \in Names |-> 0]
    /\ passed = Empty

CreateTournament(m) ==
    \E name \in Names, ioFail \in BOOLEAN : \E inp \in CreateInputs(name) :
        LET r == do_create_tournament(Stores, m, name, inp.num_players,
                                      inp.participants, inp.bounties, ioFail)
        IN  /\ Commit(r)
            /\ last' = Call("create", m, name, "-", r.outcome)
            /\ okElims' = IF r.outcome = "ok"
                          THEN [okElims EXCEPT ![name] = 0]
                          ELSE okElims
            /\ passed' = IF r.outcome = "DuplicateName"
                         THEN passed
                         ELSE Put(passed, name, inp)

UpdateHistory(m) ==
    \E name \in Names :
        LET r == do_update_tournament_history(Stores, m, name, "Comment", <<"note">>)
        IN  /\ Commit(r)
            /\ last' = Call("history", m, name, "-", r.outcome)
            /\ UNCHANGED <<okElims, passed>>

UpdateElimination(m) ==
    \E name \in Names, player \in Players, time \in Times, ioFail \in BOOLEAN :
        LET r == do_update_tournament_elimination(Stores, m, name, player, time,
                                                  Eliminator(player), ioFail)
        IN  /\ Commit(r)
            /\ last' = Call("eliminate", m, name, player, r.outcome)
            /\ okElims' = IF r.outcome = "ok"
                          THEN [okElims EXCEPT ![name] = @ + 1]
                          ELSE okElims
            /\ UNCHANGED passed

\* The admin's forms of app.py.  The elimination form offers the tournaments
\* of the registry, the remaining players of the chosen one, and its
\* participants as killers.
FormCreate(m) ==
    \E name \in Names, ioFail \in BOOLEAN : \E inp \in CreateInputs(name) :
        LET r == do_form_create(Stores, m, name, inp.num_players,
                                inp.participants, inp.bounties, ioFail)
        IN  /\ Commit(r)
            /\ last' = Call("form_create", m, name, "-", r.outcome)
            /\ okElims' = IF r.outcome = "ok"
                          THEN [okElims EXCEPT ![name] = 0]
                          ELSE okElims
            /\ passed' = IF r.outcome \in {"DuplicateName", "FormError"}
                         THEN passed
                         ELSE Put(passed, name, inp)

FormElimination(m) ==
    \E name \in DOMAIN disk, time \in Times, ioFail \in BOOLEAN :
        \E player \in Players :
            /\ In(player, remaining_players(disk, xlsx, name))
            /\ In(Eliminator(player), disk[name].participants)
            /\ LET r == do_form_elimination(Stores, m, name, player, time,
                                            Eliminator(player), ioFail)
               IN  /\ Commit(r)
                   /\ last' = Call("form_eliminate", m, name, player, r.outcome)
                   /\ okElims' = IF r.outcome = "ok"
                                 THEN [okElims EXCEPT ![name] = @ + 1]
                                 ELSE okElims
                   /\ UNCHANGED passed

Next ==
    \/ CreateTournament(Session)
    \/ UpdateHistory(Session)
    \/ UpdateElimination(Session)

Spec == Init /\ [][Next]_vars

\* create_tournament_excel called for a registered tournament.
CreateTournamentExcel(m) ==
    \E name \in DOMAIN disk :
        LET r == do_create_tournament_excel(Stores, name, disk[name].num_players)
        IN  /\ Commit(r)
            /\ last' = Call("excel", m, name, "-", r.outcome)
            /\ okElims' = [okElims EXCEPT ![name] = 0]
            /\ UNCHANGED passed

NextLedger ==
    \/ Next
    \/ CreateTournamentExcel(Session)

SpecLedger == Init /\ [][NextLedger]_vars

\* TournamentManager(): the instance m is constructed anew, its
\* self.tournaments loaded from the file.
NewManager(m) ==
    /\ mem[m] # load_tournaments
    /\ mem' = [mem EXCEPT ![m] = load_tournaments]
    /\ last' = Call("new", m, "-", "-", "ok")
    /\ UNCHANGED <<disk, xlsx, now, okElims, passed>>

\* Two sessions, each with its own TournamentManager, creating tournaments
\* and appending to histories, one call at a time.
NextTwo ==
    \E m \in Managers :
        \/ NewManager(m)
        \/ CreateTournament(m)
        \/ UpdateHistory(m)

SpecTwo == Init /\ [][NextTwo]_vars

\* The admin working through the forms only.
NextForm ==
    \/ FormCreate(Session)
    \/ FormElimination(Session)

SpecForm == Init /\ [][NextForm]_vars

(***************************************************************************)
(* Properties                                                              *)
(***************************************************************************)
\* Every step of Next is one call, and last' describes it.
Eliminates(name) == last'.op = "eliminate" /\ last'.name = name
Creates(name) == last'.op = "create" /\ last'.name = name

Filled(df) == {i \in 1..Len(df) : df[i].Player # NaN}

\* §3: as many distinct participants as num_players, bounties among them
WellFormed(t) ==
    /\ Len(t.participants) = t.num_players
    /\ \A i, j \in 1..Len(t.participants) :
           i # j => t.participants[i] # t.participants[j]
    /\ \A i \in 1..Len(t.bounties) : In(t.bounties[i], t.participants)

\* C1: update_tournament_elimination called for a player who already
\* occupies a filled slot of the tournament's ledger fails, and the ledger
\* is the same before and after the call.
C1_AlreadyEliminatedRejected ==
    [][\A name \in Names :
         (Eliminates(name) /\ last'.player \in eliminated_players(xlsx, name))
             => (last'.outcome # "ok" /\ xlsx' = xlsx)]_vars

\* C2: the successful eliminations of a tournament created for N players
\* fill one slot each, none twice, so that after N of them all N slots are
\* filled; a further call then fails with "No empty slots available" and
\* leaves the ledger as it was.
C2_Slots ==
    \A name \in DOMAIN xlsx :
        /\ Len(xlsx[name]) = passed[name].num_players
        /\ Cardinality(Filled(xlsx[name])) = okElims[name]
        /\ okElims[name] = Len(xlsx[name]) => Filled(xlsx[name]) = 1..Len(xlsx[name])

C2_FurtherCall ==
    \A name \in DOMAIN xlsx :
        (Eliminates(name) /\ okElims[name] = Len(xlsx[name]))
            => (last'.outcome = "LedgerFull" /\ xlsx' = xlsx)

C2_FillsThenFull == [](C2_Slots) /\ [][C2_FurtherCall]_vars

C2_Witness ==
    /\ last.op = "eliminate"
    /\ last.outcome = "LedgerFull"
    /\ last.name \in DOMAIN xlsx
    /\ okElims[last.name] = 3
    /\ Len(xlsx[last.name]) = 3

\* C3: in every ledger no player name is the Player of more than one slot.
C3_PlayerAtMostOnce ==
    \A name \in DOMAIN xlsx :
        \A i, j \in Filled(xlsx[name]) :
            i # j => xlsx[name][i].Player # xlsx[name][j].Player

\* C4: a successful elimination fills the unfilled slot of the lowest
\* index; the k-th successful elimination of an N-player tournament is
\* stored in slot k, whose rank is N - k + 1.
C4_Step ==
    \A name \in DOMAIN xlsx :
        (Eliminates(name) /\ last'.outcome = "ok") =>
            LET df == xlsx[name]
                df2 == xlsx'[name]
                N == disk[name].num_players
                k == okElims'[name]
            IN  \E idx \in 1..Len(df) :
                    /\ df[idx].Player = NaN
                    /\ \A i \in 1..(idx - 1) : df[i].Player # NaN
                    /\ df2[idx].Player = last'.player
                    /\ idx = k
                    /\ df2[idx].Rank = N - k + 1

C4_FirstUnfilledSlot == [][C4_Step]_vars

C4_Witness ==
    /\ last.op = "eliminate"
    /\ last.outcome = "ok"
    /\ okElims[last.name] = 3
    /\ xlsx[last.name][3].Player = last.player
    /\ xlsx[last.name][3].Rank = 1

\* C5: a successful elimination of a player who is in the tournament's
\* bounties writes Bounty Points 1 and appends exactly one "Bounty Claimed"
\* entry naming the eliminator to that tournament's history; of a player
\* who is not, it writes Bounty Points 0 and appends nothing.
C5_Step ==
    \A name \in DOMAIN xlsx :
        (Eliminates(name) /\ last'.outcome = "ok") =>
            LET df == xlsx[name]
                df2 == xlsx'[name]
                written == {i \in 1..Len(df) : df2[i] # df[i]}
                h == disk[name].history
                h2 == disk'[name].history
            IN  /\ written # {}
                /\ \A idx \in written :
                     IF In(last'.player, disk[name].bounties)
                     THEN /\ df2[idx].BountyPoints = 1
                          /\ Len(h2) = Len(h) + 1
                          /\ SubSeq(h2, 1, Len(h)) = h
                          /\ h2[Len(h2)].action = "Bounty Claimed"
                          /\ h2[Len(h2)].details[1] = df2[idx].EliminatedBy
                          /\ h2[Len(h2)].details[3] = last'.player
                     ELSE /\ df2[idx].BountyPoints = 0
                          /\ h2 = h

C5_BountyAward == [][C5_Step]_vars

C5_Witness ==
    /\ last.op = "eliminate"
    /\ last.outcome = "ok"
    /\ last.name \in DOMAIN xlsx
    /\ \E i, j \in Filled(xlsx[last.name]) :
           /\ xlsx[last.name][i].BountyPoints = 1
           /\ xlsx[last.name][j].BountyPoints = 0
    /\ \E e \in 1..Len(disk[last.name].history) :
           disk[last.name].history[e].action = "Bounty Claimed"

\* C6: after k successful eliminations the remaining players of a
\* well-formed tournament are exactly its participants that are in no filled
\* slot, each once, in the order of the participants, numPlayers - k of them.
C6_RemainingPlayers ==
    \A name \in DOMAIN xlsx :
        WellFormed(disk[name]) =>
            LET t == disk[name]
                r == remaining_players(disk, xlsx, name)
                gone == {xlsx[name][i].Player : i \in Filled(xlsx[name])}
                pos(p) == CHOOSE a \in 1..Len(t.participants) : t.participants[a] = p
            IN  /\ {r[i] : i \in 1..Len(r)}
                     = {t.participants[i] : i \in 1..Len(t.participants)} \ gone
                /\ \A i, j \in 1..Len(r) : i < j => pos(r[i]) < pos(r[j])
                /\ Len(r) = t.num_players - okElims[name]

\* C7: create_tournament with a name the registry already holds fails with
\* "already exists" and changes neither the registry nor any ledger.
C7_Step ==
    \A name \in DOMAIN disk :
        Creates(name) =>
            /\ last'.outcome = "DuplicateName"
            /\ disk' = disk
            /\ mem' = mem
            /\ xlsx' = xlsx

C7_DuplicateNameRejected == [][C7_Step]_vars

C7_Witness ==
    /\ last.op = "create"
    /\ last.outcome = "DuplicateName"
    /\ last.name \in DOMAIN xlsx
    /\ Filled(xlsx[last.name]) # {}
    /\ disk[last.name].history # << >>

\* C8: a tournament name is in the persisted registry only if a ledger file
\* exists for it, also after a create_tournament whose ledger write failed.
C8_NoOrphanRecord == DOMAIN disk \subseteq DOMAIN xlsx

\* C9: get_tournament returns, for a created tournament, the participants
\* (in order), bounties and num_players passed to create_tournament, whatever
\* eliminations and history entries were recorded since, on any tournament.
C9_CreateGetRoundTrip ==
    \A name \in DOMAIN passed :
        LET got == get_tournament(Session, name)
        IN  /\ got # << >>
            /\ got[1].participants = passed[name].participants
            /\ got[1].bounties = passed[name].bounties
            /\ got[1].num_players = passed[name].num_players

C9_Witness ==
    /\ DOMAIN passed = Names
    /\ last.op = "history"
    /\ last.outcome = "ok"
    /\ \E name \in Names : name # last.name /\ okElims[name] > 0

\* C10: right after create_tournament_excel(name, N) the ledger has N slots
\* whose ranks are N, N-1, ..., 1 in storage order, every other field empty.
C10_FreshLedger ==
    (last.op = "create" /\ last.outcome = "ok") =>
        LET df == xlsx[last.name]
            N == passed[last.name].num_players
        IN  /\ Len(df) = N
            /\ {df[i].Rank : i \in 1..Len(df)} = 1..N
            /\ \A i \in 1..Len(df) :
                 /\ df[i].Rank = N - i + 1
                 /\ df[i].Player = NaN
                 /\ df[i].EliminationTime = NaN
                 /\ df[i].EliminatedBy = NaN
                 /\ df[i].BountyPoints = NoPoints

C10_Witness ==
    /\ last.op = "create"
    /\ last.outcome = "ok"
    /\ Len(xlsx[last.name]) = 3

IsPrefix(s, t) == Len(s) <= Len(t) /\ SubSeq(t, 1, Len(s)) = s

\* C11: a tournament's history only grows at its end: whatever call is made
\* (create_tournament, update_tournament_elimination,
\* update_tournament_history), every registered tournament stays registered
\* and the history it had is a prefix of the history it has afterwards; so
\* the history of any earlier state is a prefix of that of any later state.
C11_Step ==
    \A name \in DOMAIN disk :
        /\ name \in DOMAIN disk'
        /\ IsPrefix(disk[name].history, disk'[name].history)

C11_HistoryAppendOnly == [][C11_Step]_vars

C11_Witness ==
    /\ last.op \in {"history", "eliminate"}
    /\ last.outcome = "ok"
    /\ Len(disk[last.name].history) = 2
    /\ disk[last.name].history[1].action # disk[last.name].history[2].action

Count(h, action) == Cardinality({e \in 1..Len(h) : h[e].action = action})

\* C12: every elimination the admin's form records successfully appends
\* exactly one "Elimination" entry to that tournament's history, for a bounty
\* player (after the "Bounty Claimed" entry) as for any other; so between
\* submits the number of "Elimination" entries of a tournament equals the
\* number of filled slots of its ledger.
C12_Step ==
    \A name \in DOMAIN disk :
        (last'.op = "form_eliminate" /\ last'.name = name /\ last'.outcome = "ok") =>
            LET h == disk[name].history
                h2 == disk'[name].history
            IN  /\ Count(h2, "Elimination") = Count(h, "Elimination") + 1
                /\ h2[Len(h2)].action = "Elimination"
                /\ h2[Len(h2)].details[1] = last'.player
                /\ Len(h2) = Len(h) + 1 + bounty_points_of(last'.player, disk[name].bounties)

C12_Counts ==
    \A name \in DOMAIN disk \cap DOMAIN xlsx :
        Count(disk[name].history, "Elimination") = Cardinality(Filled(xlsx[name]))

C13_UnknownPlayerRejected ==
    [][\A name \in DOMAIN disk :
         (Eliminates(name) /\ ~In(last'.player, disk[name].participants))
             => (last'.outcome # "ok" /\ xlsx' = xlsx /\ disk' = disk)]_vars

\* C14: create_tournament_excel called for a name whose ledger file exists
\* fails and leaves the file as it is, filled rows included.
C14_LedgerNotOverwritten ==
    [][\A name \in DOMAIN xlsx :
         (last'.op = "excel" /\ last'.name = name)
             => (last'.outcome # "ok" /\ xlsx' = xlsx)]_vars

\* C15: every tournament of the persisted registry has pairwise distinct
\* participants, as many as num_players, and bounties that are all
\* participants: a create_tournament call with other inputs persists nothing.
C15_RegistryWellFormed == \A name \in DOMAIN disk : WellFormed(disk[name])

\* The scenario of §8: "Friday" created for A, B, C with bounty B; k
\* eliminations recorded since: B by A, then C by A, then A.
Scenario(k) ==
    /\ "Friday" \in DOMAIN disk \cap DOMAIN xlsx
    /\ disk["Friday"].num_players = 3
    /\ disk["Friday"].participants = <<"A", "B", "C">>
    /\ disk["Friday"].bounties = <<"B">>
    /\ okElims["Friday"] = k
    /\ k >= 1 => /\ xlsx["Friday"][1].Player = "B"
                 /\ xlsx["Friday"][1].EliminatedBy = "A"
    /\ k >= 2 => /\ xlsx["Friday"][2].Player = "C"
                 /\ xlsx["Friday"][2].EliminatedBy = "A"

\* C16 as stated: in the scenario, after B and C were eliminated by A
\* (remaining players = [A]), a third elimination attempt, of A, whose ledger
\* write does not fail, ends with "No empty slots available".
C16_ThirdAttemptFails ==
    [][(Scenario(2) /\ Eliminates("Friday") /\ last'.player = "A"
            /\ last'.outcome # "IOError")
          => last'.outcome = "LedgerFull"]_vars

\* C16 amended: in the scenario, B's slot has Bounty Points 1 and C's 0 and
\* after the two eliminations the remaining players are [A]; a third
\* elimination, of A, succeeds (unless the ledger write fails) and fills the
\* last slot, of rank 1; only a fourth attempt ends with "No empty slots
\* available", and changes nothing.
C16_State ==
    /\ Scenario(1) => /\ xlsx["Friday"][1].BountyPoints = 1
                      /\ remaining_players(disk, xlsx, "Friday") = <<"A", "C">>
    /\ Scenario(2) => /\ xlsx["Friday"][2].BountyPoints = 0
                      /\ remaining_players(disk, xlsx, "Friday") = <<"A">>
                      /\ xlsx["Friday"][3].Player = NaN

C16_Step ==
    /\ (Scenario(2) /\ Eliminates("Friday") /\ last'.player = "A") =>
           /\ last'.outcome \in {"ok", "IOError"}
           /\ last'.outcome = "ok" =>
                  /\ xlsx'["Friday"][3].Player = "A"
                  /\ xlsx'["Friday"][3].Rank = 1
                  /\ remaining_players(disk', xlsx', "Friday") = << >>
    /\ (Scenario(3) /\ Eliminates("Friday")) =>
           /\ last'.outcome = "LedgerFull"
           /\ xlsx' = xlsx
           /\ disk' = disk

C16_FourthAttemptFails == [](C16_State) /\ [][C16_Step]_vars

C16_Witness ==
    /\ Scenario(3)
    /\ xlsx["Friday"][3].Player = "A"
    /\ last.op = "eliminate"
    /\ last.name = "Friday"
    /\ last.outcome = "LedgerFull"

\* C17: for a registered tournament whose ledger file does not exist, the
\* admin's elimination view and the user's progress view both compute the
\* remaining players as with zero eliminations: all participants.
C17_MissingLedgerIsNoEliminations ==
    \A name \in DOMAIN disk \ DOMAIN xlsx :
        /\ admin_view_remaining(disk, xlsx, name).remaining
               = <<disk[name].participants>>
        /\ user_view_remaining(disk, xlsx, name).remaining
               = <<disk[name].participants>>

\* C18: a successful update_tournament_elimination changes exactly one row
\* of the tournament's ledger, a row whose Player was empty; every row keeps
\* its Rank, the rows filled before keep all their fields, and the ledgers of
\* the other tournaments are as they were.
C18_Step ==
    \A name \in DOMAIN xlsx :
        (Eliminates(name) /\ last'.outcome = "ok") =>
            LET df == xlsx[name]
                df2 == xlsx'[name]
                changed == {i \in 1..Len(df) : df2[i] # df[i]}
            IN  /\ DOMAIN xlsx' = DOMAIN xlsx
                /\ Len(df2) = Len(df)
                /\ Cardinality(changed) = 1
                /\ \A i \in changed : df[i].Player = NaN /\ df2[i].Player # NaN
                /\ \A i \in 1..Len(df) : df2[i].Rank = df[i].Rank
                /\ \A i \in Filled(df) : df2[i] = df[i]
                /\ \A other \in DOMAIN xlsx \ {name} : xlsx'[other] = xlsx[other]

C18_OneSlotChanges == [][C18_Step]_vars

C18_Witness ==
    /\ last.op = "eliminate"
    /\ last.outcome = "ok"
    /\ DOMAIN xlsx = Names
    /\ okElims[last.name] >= 2
    /\ \A name \in Names : Filled(xlsx[name]) # {}

\* C19: an update_tournament_elimination call that fails, for a full ledger
\* or for a failed write of the ledger file, leaves the ledger files and the
\* persisted registry with its histories as they were; so the "Bounty
\* Claimed" entries of a tournament are as many as the rows of its ledger
\* with Bounty Points 1.
C19_Step ==
    \A name \in DOMAIN disk :
        (Eliminates(name) /\ last'.outcome # "ok") => (xlsx' = xlsx /\ disk' = disk)

C19_Counts ==
    \A name \in DOMAIN disk \cap DOMAIN xlsx :
        Count(disk[name].history, "Bounty Claimed")
            = Cardinality({i \in 1..Len(xlsx[name]) : xlsx[name][i].BountyPoints = 1})

C19_FailedCallChangesNothing == [](C19_Counts) /\ [][C19_Step]_vars

\* C20: with two TournamentManager instances creating tournaments and
\* appending history entries on the same tournaments.json, one call at a
\* time, no call of one instance removes what the other wrote: every
\* tournament of the file stays in the file, with every entry of its history.
C20_Step ==
    \A name \in DOMAIN disk :
        /\ name \in DOMAIN disk'
        /\ \A e \in 1..Len(disk[name].history) :
               \E f \in 1..Len(disk'[name].history) :
                   disk'[name].history[f] = disk[name].history[e]

C20_NothingLost == [][C20_Step]_vars

====
